---- MODULE Spec2Model ----
(***************************************************************************)
(* kdoc: the comment/element extraction engine (package parser), the       *)
(* backlink resolver and the generate run of main.go.                      *)
(*                                                                         *)
(* A Go string is modelled as a sequence of one-character strings, a       *)
(* []string as a sequence of such sequences.  Indices are 1-based here and *)
(* 0-based in the source; a loop position i of the source is i+1 here.     *)
(***************************************************************************)
EXTENDS Integers, Sequences, FiniteSets, TLC

(***************************************************************************)
(* Bounds of the model.                                                    *)
(***************************************************************************)
MaxLines == 4
MaxDescLen == 6
MaxPasses == 2
MaxFiles == 3
MaxSigTail == 4
MaxPrior == 2

(***************************************************************************)
(* Characters and the string helpers of package strings.                   *)
(***************************************************************************)
NL == "\n"

\* unicode.IsSpace on the characters the model uses
IsSpace(c) == c \in {" ", "\t", "\r", NL}

\* \w of Go's regexp: [0-9A-Za-z_]
WordChars ==
  {"a","b","c","d","e","f","g","h","i","j","k","l","m","n","o","p","q","r",
   "s","t","u","v","w","x","y","z",
   "A","B","C","D","E","F","G","H","I","J","K","L","M","N","O","P","Q","R",
   "S","T","U","V","W","X","Y","Z",
   "0","1","2","3","4","5","6","7","8","9","_"}

IsWord(c) == c \in WordChars

Drop(s, n) == SubSeq(s, n + 1, Len(s))

Take(s, n) == SubSeq(s, 1, n)

RECURSIVE TrimLeft(_)
TrimLeft(s) ==
  IF s # <<>> /\ IsSpace(s[1]) THEN TrimLeft(Tail(s)) ELSE s

RECURSIVE TrimRight(_)
TrimRight(s) ==
  IF s # <<>> /\ IsSpace(s[Len(s)]) THEN TrimRight(Take(s, Len(s) - 1)) ELSE s

\* strings.TrimSpace
TrimSpace(s) == TrimRight(TrimLeft(s))

\* strings.HasPrefix
HasPrefix(s, p) == Len(s) >= Len(p) /\ Take(s, Len(p)) = p

\* strings.Index: the 0-based position of the first occurrence, -1 if none
Index(s, p) ==
  LET hits == {k \in 0..(Len(s) - Len(p)) : SubSeq(s, k + 1, k + Len(p)) = p}
  IN IF hits = {} THEN -1 ELSE CHOOSE k \in hits : \A h \in hits : k <= h

\* strings.Join
RECURSIVE Join(_, _)
Join(ss, sep) ==
  IF ss = <<>> THEN <<>>
  ELSE IF Len(ss) = 1 THEN ss[1]
  ELSE ss[1] \o <<sep>> \o Join(Tail(ss), sep)

\* strings.Fields, first field only is ever used: words[0], <<>> when none
FirstField(s) ==
  LET t == TrimLeft(s)
      stops == {k \in 1..Len(t) : IsSpace(t[k])}
      e == IF stops = {} THEN Len(t)
           ELSE (CHOOSE k \in stops : \A h \in stops : k <= h) - 1
  IN Take(t, e)

\* strings.ToLower on the letters the model uses
LowerChar(c) ==
  CASE c = "W" -> "w"
    [] c = "F" -> "f"
    [] c = "G" -> "g"
    [] OTHER -> c

ToLower(s) == [k \in 1..Len(s) |-> LowerChar(s[k])]

\* strings.ReplaceAll(s, " ", "-")
SpacesToHyphens(s) == [k \in 1..Len(s) |-> IF s[k] = " " THEN "-" ELSE s[k]]

\* fmt.Sprintf("%d", n) for the counts the model reaches
Digit(n) == <<"0","1","2","3","4","5","6","7","8","9">>[n + 1]

RECURSIVE Decimal(_)
Decimal(n) == IF n < 10 THEN <<Digit(n)>> ELSE Decimal(n \div 10) \o <<Digit(n % 10)>>

(***************************************************************************)
(* Configuration (config.CFG).                                             *)
(***************************************************************************)
DocComment == <<"/", "/", "/">>

(***************************************************************************)
(* Comment-run detection and description lines (parser).                   *)
(***************************************************************************)
\* strings.HasPrefix(strings.TrimSpace(line), prefix)
IsRunLine(line, prefix) == HasPrefix(TrimSpace(line), prefix)

\* prefixPos > 0 && strings.TrimSpace(line[:prefixPos]) == ""
IsIndentedComment(line, prefix) ==
  LET prefixPos == Index(line, prefix)
  IN prefixPos > 0 /\ TrimSpace(Take(line, prefixPos)) = <<>>

\* StripContent removing every leading space, not one
StripContentAllSpaces(line, prefix) == TrimLeft(Drop(TrimSpace(line), Len(prefix)))

\* content := trimmedLine[prefixLen:], less one leading space
StripContent(line, prefix) ==
  LET content == Drop(TrimSpace(line), Len(prefix))
  IN IF Len(content) > 0 /\ content[1] = " " THEN Tail(content) ELSE content

\* TopLoop with `break` where the source has `i++; continue`
RECURSIVE TopLoopStopsAtIndented(_, _, _, _, _)
TopLoopStopsAtIndented(lines, i, desc, prefix, ignoreIndented) ==
  IF i > Len(lines) THEN [desc |-> desc, i |-> i]
  ELSE IF ~IsRunLine(lines[i], prefix) THEN [desc |-> desc, i |-> i]
  ELSE IF ignoreIndented /\ IsIndentedComment(lines[i], prefix)
       THEN [desc |-> desc, i |-> i]
  ELSE TopLoopStopsAtIndented(lines, i + 1, Append(desc, StripContent(lines[i], prefix)),
                              prefix, ignoreIndented)

\* The loop of extractTopComment from position i with desc collected so far.
RECURSIVE TopLoop(_, _, _, _, _)
TopLoop(lines, i, desc, prefix, ignoreIndented) ==
  IF i > Len(lines) THEN [desc |-> desc, i |-> i]
  ELSE IF ~IsRunLine(lines[i], prefix) THEN [desc |-> desc, i |-> i]
  ELSE IF ignoreIndented /\ IsIndentedComment(lines[i], prefix)
       THEN TopLoop(lines, i + 1, desc, prefix, ignoreIndented)
  ELSE TopLoop(lines, i + 1, Append(desc, StripContent(lines[i], prefix)),
               prefix, ignoreIndented)

\* extractTopComment returning lines[i+1:]: the terminating line is lost
extractTopCommentSkipsLine(lines, prefix, ignoreIndented) ==
  LET r == TopLoop(lines, 1, <<>>, prefix, ignoreIndented)
  IN [desc |-> Join(r.desc, NL), descLines |-> r.desc, rest |-> Drop(lines, r.i)]

\* extractTopComment: descLines is desc before the join, kept for the checks
extractTopComment(lines, prefix, ignoreIndented) ==
  LET r == TopLoop(lines, 1, <<>>, prefix, ignoreIndented)
  IN [desc |-> Join(r.desc, NL), descLines |-> r.desc, rest |-> Drop(lines, r.i - 1)]

(***************************************************************************)
(* Identifier derivation (extractIDFromSig).                               *)
(***************************************************************************)
\* the end of the greedy run of \w characters that starts at s (s - 1 when empty)
RECURSIVE WordRunEnd(_, _)
WordRunEnd(str, s) ==
  IF s <= Len(str) /\ IsWord(str[s]) THEN WordRunEnd(str, s + 1) ELSE s - 1

\* the end of the greedy run of \s characters that starts at s (s - 1 when empty)
RECURSIVE SpaceRunEnd(_, _)
SpaceRunEnd(str, s) ==
  IF s <= Len(str) /\ IsSpace(str[s]) THEN SpaceRunEnd(str, s + 1) ELSE s - 1

KwClass == <<"c", "l", "a", "s", "s">>

KwStruct == <<"s", "t", "r", "u", "c", "t">>

\* ^(?:class|struct)\s+(\w+) : the captured word, <<>> when there is no match
ClassMatch(sig) ==
  LET kw == IF HasPrefix(sig, KwClass) THEN KwClass
            ELSE IF HasPrefix(sig, KwStruct) THEN KwStruct ELSE <<>>
      ws == SpaceRunEnd(sig, Len(kw) + 1)
      we == WordRunEnd(sig, ws + 1)
  IN IF kw # <<>> /\ ws > Len(kw) /\ we > ws THEN SubSeq(sig, ws + 1, we) ELSE <<>>

\* (\w+)\s*\( matched with its left end at s
FuncMatchAt(sig, s) ==
  LET we == WordRunEnd(sig, s)
      ws == SpaceRunEnd(sig, we + 1)
  IN we >= s /\ ws + 1 <= Len(sig) /\ sig[ws + 1] = "("

\* FuncMatch taking the last match, not the first
FuncMatchRightmost(sig) ==
  LET hits == {s \in 1..Len(sig) : FuncMatchAt(sig, s) /\ (s = 1 \/ ~IsWord(sig[s - 1]))}
      s0 == CHOOSE s \in hits : \A h \in hits : s >= h
  IN IF hits = {} THEN <<>> ELSE SubSeq(sig, s0, WordRunEnd(sig, s0))

\* (\w+)\s*\( : the leftmost match's captured word, <<>> when there is no match
FuncMatch(sig) ==
  LET hits == {s \in 1..Len(sig) : FuncMatchAt(sig, s)}
      s0 == CHOOSE s \in hits : \A h \in hits : s <= h
  IN IF hits = {} THEN <<>> ELSE SubSeq(sig, s0, WordRunEnd(sig, s0))

extractIDFromSig(sig) ==
  IF ClassMatch(sig) # <<>> THEN ClassMatch(sig)
  ELSE IF FuncMatch(sig) # <<>> THEN FuncMatch(sig)
  ELSE FirstField(sig)

\* fmt.Sprintf("unnamed_%d", len(elements))
Unnamed(k) == <<"u", "n", "n", "a", "m", "e", "d", "_">> \o Decimal(k)

\* id := extractIDFromSig(sig); if id == "" { id = unnamed_<len(elements)> }
ElementID(sig, nEmitted) ==
  IF extractIDFromSig(sig) = <<>> THEN Unnamed(nEmitted) ELSE extractIDFromSig(sig)

(***************************************************************************)
(* Element extraction (extractElements).                                   *)
(***************************************************************************)
\* the collection as an `if`: one line is collected, the run's others are not
CollectEndOneLine(lines, i, prefix) ==
  IF i <= Len(lines) /\ IsRunLine(lines[i], prefix) THEN i + 1 ELSE i

\* the inner collection loop: the first position from i that is no run line
RECURSIVE CollectEnd(_, _, _)
CollectEnd(lines, i, prefix) ==
  IF i <= Len(lines) /\ IsRunLine(lines[i], prefix)
  THEN CollectEnd(lines, i + 1, prefix) ELSE i

\* the interstitial loop skipping blank lines only
RECURSIVE SkipEndBlankOnly(_, _, _)
SkipEndBlankOnly(lines, i, prefix) ==
  IF i <= Len(lines) /\ TrimSpace(lines[i]) = <<>>
  THEN SkipEndBlankOnly(lines, i + 1, prefix) ELSE i

\* no interstitial loop: the signature is looked for right after the run
SkipEndNothing(lines, i, prefix) == i

\* the interstitial loop: skip blank lines and further run lines
RECURSIVE SkipEnd(_, _, _)
SkipEnd(lines, i, prefix) ==
  IF i <= Len(lines) /\ (TrimSpace(lines[i]) = <<>> \/ IsRunLine(lines[i], prefix))
  THEN SkipEnd(lines, i + 1, prefix) ELSE i

\* regexp `\s*{$` replaced by "": a final brace and the whitespace before it
StripBrace(sig) ==
  IF sig # <<>> /\ sig[Len(sig)] = "{"
  THEN TrimRight(Take(sig, Len(sig) - 1)) ELSE sig

\* whether a signature line is taken at position i
HasSig(lines, i) == i <= Len(lines) /\ TrimSpace(lines[i]) # <<>>

\* sig and the position after it
CaptureSig(lines, i) ==
  IF HasSig(lines, i)
  THEN [sig |-> StripBrace(TrimSpace(lines[i])), i |-> i + 1]
  ELSE [sig |-> <<>>, i |-> i]

\* StartsRun without the indentation exclusion
StartsRunAnyIndent(line, prefix, ignoreIndented) == IsRunLine(line, prefix)

\* whether the outer loop starts a run at lines[i]
StartsRun(line, prefix, ignoreIndented) ==
  IsRunLine(line, prefix) /\ ~(ignoreIndented /\ IsIndentedComment(line, prefix))

\* the collected desc of a run starting at i
CollectDesc(lines, i, prefix) ==
  [k \in 1..(CollectEnd(lines, i, prefix) - i) |-> StripContent(lines[i + k - 1], prefix)]

\* ElemIter dropping a run that no signature line follows
ElemIterNeedsSig(lines, i, elements, prefix, ignoreIndented) ==
  IF ~StartsRun(lines[i], prefix, ignoreIndented)
  THEN [i |-> i + 1, elements |-> elements]
  ELSE LET desc == CollectDesc(lines, i, prefix)
           c == CaptureSig(lines, SkipEnd(lines, CollectEnd(lines, i, prefix), prefix))
       IN IF Len(desc) = 0 \/ c.sig = <<>>
          THEN [i |-> c.i, elements |-> elements]
          ELSE [i |-> c.i,
                elements |-> Append(elements,
                   [ID |-> ElementID(c.sig, Len(elements)),
                    Description |-> Join(desc, NL),
                    Signature |-> c.sig])]

\* ElemIter without the i++ before `continue` at an indented comment line
ElemIterStaysAtIndented(lines, i, elements, prefix, ignoreIndented) ==
  IF ~IsRunLine(lines[i], prefix)
  THEN [i |-> i + 1, elements |-> elements]
  ELSE IF ignoreIndented /\ IsIndentedComment(lines[i], prefix)
  THEN [i |-> i, elements |-> elements]
  ELSE LET desc == CollectDesc(lines, i, prefix)
           c == CaptureSig(lines, SkipEnd(lines, CollectEnd(lines, i, prefix), prefix))
       IN [i |-> c.i,
           elements |-> Append(elements,
              [ID |-> ElementID(c.sig, Len(elements)),
               Description |-> Join(desc, NL),
               Signature |-> c.sig])]

\* One iteration of the outer loop of extractElements at position i <= len(lines).
ElemIter(lines, i, elements, prefix, ignoreIndented) ==
  IF ~StartsRun(lines[i], prefix, ignoreIndented)
  THEN [i |-> i + 1, elements |-> elements]
  ELSE LET desc == CollectDesc(lines, i, prefix)
           c == CaptureSig(lines, SkipEnd(lines, CollectEnd(lines, i, prefix), prefix))
       IN IF Len(desc) = 0
          THEN [i |-> CollectEnd(lines, i, prefix), elements |-> elements]
          ELSE [i |-> c.i,
                elements |-> Append(elements,
                   [ID |-> ElementID(c.sig, Len(elements)),
                    Description |-> Join(desc, NL),
                    Signature |-> c.sig])]

RECURSIVE ElemLoop(_, _, _, _, _)
ElemLoop(lines, i, elements, prefix, ignoreIndented) ==
  IF i > Len(lines) THEN elements
  ELSE LET r == ElemIter(lines, i, elements, prefix, ignoreIndented)
       IN ElemLoop(lines, r.i, r.elements, prefix, ignoreIndented)

extractElements(lines, prefix, ignoreIndented) ==
  ElemLoop(lines, 1, <<>>, prefix, ignoreIndented)

(***************************************************************************)
(* Backlink resolution (ProcessBacklinks).                                 *)
(***************************************************************************)
\* whether \[([^\]]+)\] matches with its left end at s
TokenAt(desc, s) ==
  /\ desc[s] = "["
  /\ s + 1 <= Len(desc) /\ desc[s + 1] # "]"
  /\ \E e \in (s + 2)..Len(desc) : desc[e] = "]"

\* the right end of the match whose left end is s: the first "]" after s + 1
TokenEnd(desc, s) ==
  CHOOSE e \in (s + 2)..Len(desc) :
    desc[e] = "]" /\ \A j \in (s + 2)..(e - 1) : desc[j] # "]"

\* the left ends of the matches at or after position from
TokenStarts(desc, from) == {s \in from..Len(desc) : TokenAt(desc, s)}

\* re.FindStringSubmatch(match)[1] for a match of the expression
Submatch(match) ==
  LET s == CHOOSE s \in TokenStarts(match, 1) : \A h \in TokenStarts(match, 1) : s <= h
  IN SubSeq(match, s + 1, TokenEnd(match, s) - 1)

\* the callback returning submatch[1] for a token that is no key
ReplaceTokenDropsBrackets(match, linkIndex) ==
  IF Submatch(match) \in DOMAIN linkIndex
  THEN <<"[">> \o Submatch(match) \o <<"]", "(">> \o linkIndex[Submatch(match)] \o <<")">>
  ELSE Submatch(match)

\* the callback of ReplaceAllStringFunc
ReplaceToken(match, linkIndex) ==
  IF Submatch(match) \in DOMAIN linkIndex
  THEN <<"[">> \o Submatch(match) \o <<"]", "(">> \o linkIndex[Submatch(match)] \o <<")">>
  ELSE match

\* ReplaceFrom leaving alone a token that "(" directly follows
RECURSIVE ReplaceFromSkipsLinked(_, _, _)
ReplaceFromSkipsLinked(desc, from, linkIndex) ==
  IF TokenStarts(desc, from) = {} THEN Drop(desc, from - 1)
  ELSE LET s == CHOOSE s \in TokenStarts(desc, from) :
                   \A h \in TokenStarts(desc, from) : s <= h
           e == TokenEnd(desc, s)
       IN SubSeq(desc, from, s - 1)
          \o (IF e < Len(desc) /\ desc[e + 1] = "("
              THEN SubSeq(desc, s, e)
              ELSE ReplaceToken(SubSeq(desc, s, e), linkIndex))
          \o ReplaceFromSkipsLinked(desc, e + 1, linkIndex)

\* re.ReplaceAllStringFunc from position from: leftmost, non-overlapping matches
RECURSIVE ReplaceFrom(_, _, _)
ReplaceFrom(desc, from, linkIndex) ==
  IF TokenStarts(desc, from) = {} THEN Drop(desc, from - 1)
  ELSE LET s == CHOOSE s \in TokenStarts(desc, from) :
                   \A h \in TokenStarts(desc, from) : s <= h
           e == TokenEnd(desc, s)
       IN SubSeq(desc, from, s - 1)
          \o ReplaceToken(SubSeq(desc, s, e), linkIndex)
          \o ReplaceFrom(desc, e + 1, linkIndex)

ProcessBacklinks(desc, linkIndex) == ReplaceFrom(desc, 1, linkIndex)

(***************************************************************************)
(* State.                                                                  *)
(***************************************************************************)
VARIABLES
  exLines,      \* extraction: the lines of the file
  exIgn,        \* extraction: ignoreIndented
  exPhase,      \* extraction: "start", "scan", "done" ("idle": unused)
  exTop,        \* extraction: <<the result of extractTopComment>>, <<>> before
  exScan,       \* extraction: the lines given to extractElements
  exI,          \* extraction: i of extractElements' outer loop (1-based)
  exElements,   \* extraction: elements
  idLines,      \* identifiers: the lines given to extractElements
  idElements,   \* identifiers: <<its result>>, <<>> before
  blIn,         \* backlinks: the description before any pass
  blDesc,       \* backlinks: the description now
  blIndex,      \* backlinks: linkIndex
  blPasses,     \* backlinks: number of ProcessBacklinks applications so far
  gMatched,     \* generate: matchedFiles, each with what the file system holds
  gPc,          \* generate: "check", "parse", "index", "resolve", "write", "done"
  gK,           \* generate: position of the current loop (1-based)
  gFiles,       \* generate: p.Files
  gIndex,       \* generate: linkIndex
  gWritten,     \* generate: the output files written, in order
  gResult,      \* generate: what Action returned: "none" yet, "nil", "error"
  gCalls        \* generate: number of ProcessBacklinks calls made so far

exVars == <<exLines, exIgn, exPhase, exTop, exScan, exI, exElements>>

idVars == <<idLines, idElements>>

blVars == <<blIn, blDesc, blIndex, blPasses>>

gVars == <<gMatched, gPc, gK, gFiles, gIndex, gWritten, gResult, gCalls>>

vars == <<exVars, idVars, blVars, gVars>>

exIdle ==
  /\ exLines = <<>> /\ exIgn = FALSE /\ exPhase = "idle" /\ exTop = <<>>
  /\ exScan = <<>> /\ exI = 1 /\ exElements = <<>>

idIdle == idLines = <<>> /\ idElements = <<>>

blIdle == blIn = <<>> /\ blDesc = <<>> /\ blIndex = <<>> /\ blPasses = 0

gIdle ==
  /\ gMatched = <<>> /\ gPc = "idle" /\ gK = 1 /\ gFiles = <<>> /\ gIndex = <<>>
  /\ gWritten = <<>> /\ gResult = "none" /\ gCalls = 0

\* all sequences over S of length at most n
SeqsUpTo(S, n) == UNION {[1..m -> S] : m \in 0..n}

(***************************************************************************)
(* Extraction of one file: ParseFile, extractTopComment, extractElements.  *)
(***************************************************************************)
LnDoc == <<"/", "/", "/", " ", " ", "a", " ">>

LnBare == <<"/", "/", "/">>

LnInd == <<"\t", "/", "/", "/", "b", "\t">>

LnEmpty == <<>>

LnSig == <<"f", "(", " ", "{">>

LnCode == <<" ", "x", " ">>

LnBrace == <<"{">>

ExLineSet == {LnDoc, LnBare, LnInd, LnEmpty, LnSig, LnCode, LnBrace}

ExInit ==
  /\ exLines \in SeqsUpTo(ExLineSet, MaxLines)
  /\ exIgn \in BOOLEAN
  /\ exPhase = "start" /\ exTop = <<>> /\ exScan = <<>> /\ exI = 1
  /\ exElements = <<>>
  /\ idIdle /\ blIdle /\ gIdle

\* ParseFile after the read: the top comment, then the elements of the rest
ParseFileStart ==
  /\ exPhase = "start"
  /\ exTop' = <<extractTopComment(exLines, DocComment, exIgn)>>
  /\ exScan' = exTop'[1].rest
  /\ exI' = 1 /\ exElements' = <<>> /\ exPhase' = "scan"
  /\ UNCHANGED <<exLines, exIgn, idVars, blVars, gVars>>

\* extractElements called on the lines as they are
ExtractElementsStart ==
  /\ exPhase = "start"
  /\ exScan' = exLines
  /\ exI' = 1 /\ exElements' = <<>> /\ exPhase' = "scan"
  /\ UNCHANGED <<exLines, exIgn, exTop, idVars, blVars, gVars>>

\* one iteration of the outer loop
ScanIter ==
  /\ exPhase = "scan" /\ exI <= Len(exScan)
  /\ LET r == ElemIter(exScan, exI, exElements, DocComment, exIgn)
     IN exI' = r.i /\ exElements' = r.elements
  /\ UNCHANGED <<exLines, exIgn, exPhase, exTop, exScan, idVars, blVars, gVars>>

\* the loop ends: return elements, lines[i:]
ScanReturn ==
  /\ exPhase = "scan" /\ exI > Len(exScan)
  /\ exPhase' = "done"
  /\ UNCHANGED <<exLines, exIgn, exTop, exScan, exI, exElements, idVars, blVars, gVars>>

ExNext == ParseFileStart \/ ExtractElementsStart \/ ScanIter \/ ScanReturn

SpecExtract == ExInit /\ [][ExNext]_vars

(***************************************************************************)
(* Identifier derivation through extractElements.                          *)
(***************************************************************************)
SigAlphabet == {"a", "W", " ", "(", "{"}

SigLines ==
  {kw \o t : kw \in {<<>>, KwClass, KwStruct}, t \in SeqsUpTo(SigAlphabet, MaxSigTail)}

\* n documented elements that precede the one looked at
RECURSIVE PriorBlocks(_)
PriorBlocks(n) == IF n = 0 THEN <<>> ELSE <<LnDoc, LnCode>> \o PriorBlocks(n - 1)

IdInit ==
  /\ idLines \in {PriorBlocks(n) \o <<LnDoc>> \o t :
                    n \in 0..MaxPrior, t \in {<<>>} \cup {<<l>> : l \in SigLines}}
  /\ idElements = <<>>
  /\ exIdle /\ blIdle /\ gIdle

DeriveIDs ==
  /\ idElements = <<>>
  /\ idElements' = <<extractElements(idLines, DocComment, FALSE)>>
  /\ UNCHANGED <<idLines, exVars, blVars, gVars>>

IdNext == DeriveIDs

SpecID == IdInit /\ [][IdNext]_vars

(***************************************************************************)
(* Backlink resolution of one description.                                 *)
(***************************************************************************)
BlAlphabet == {"[", "]", "a", "b"}

KeyA == <<"a">>

KeyAB == <<"a", "b">>

KeyBrA == <<"[", "a">>

\* a location as main.go builds it: <base>#<anchor>
BlLoc(id) == <<"m", "#">> \o ToLower(SpacesToHyphens(id))

BlIndexes ==
  {[id \in K |-> BlLoc(id)] : K \in {{}, {KeyA}, {KeyA, KeyAB}, {KeyA, KeyBrA}}}

BlInit ==
  /\ blIn \in SeqsUpTo(BlAlphabet, MaxDescLen)
  /\ blDesc = blIn
  /\ blIndex \in BlIndexes
  /\ blPasses = 0
  /\ exIdle /\ idIdle /\ gIdle

Resolve ==
  /\ blPasses < MaxPasses
  /\ blDesc' = ProcessBacklinks(blDesc, blIndex)
  /\ blPasses' = blPasses + 1
  /\ UNCHANGED <<blIn, blIndex, exVars, idVars, gVars>>

BlNext == Resolve

SpecLinks == BlInit /\ [][BlNext]_vars

(***************************************************************************)
(* The generate run (main.go, the Action of "generate").                   *)
(*                                                                         *)
(* The state starts after collectFiles has returned matchedFiles.  A       *)
(* matched file is its path, the lines os.ReadFile would give, whether the *)
(* read succeeds and whether its output can be written.  collectFiles      *)
(* returns only paths whose extension is configured, so the `!ok` skip of  *)
(* the parse loop never happens; git metadata and the rendering of the     *)
(* markdown text are left out: an output file is modelled by the File      *)
(* record it is rendered from.                                             *)
(***************************************************************************)
LnRefG == <<"/", "/", "/", "[", "G", "]">>

LnRefF == <<"/", "/", "/", "[", "F", "]">>

LnSigF == <<"F", "(">>

LnSigG == <<"G", "(">>

\* module description [G], element F described by [G]
TxtF == <<LnRefG, LnEmpty, LnRefG, LnSigF>>

\* element G described by [F]
TxtG == <<LnCode, LnRefF, LnSigG>>

\* two further elements F in one file, described by [F] and by [G]
TxtDup == <<LnCode, LnRefF, LnSigF, LnRefG, LnSigF>>

\* nothing documented
TxtNone == <<LnCode>>

Texts == {TxtF, TxtG, TxtDup, TxtNone}

FileKinds ==
  {[text |-> t, readable |-> TRUE, writable |-> w] : t \in Texts, w \in BOOLEAN}
  \cup {[text |-> <<>>, readable |-> FALSE, writable |-> TRUE]}

\* the k-th path of the walk: p<k>.c
PathOf(k) == [stem |-> <<"p">> \o Decimal(k), ext |-> <<".", "c">>]

\* filepath.Base(outputFilename(scan_root, path, out, ext)): <stem>.md
OutBase(path) == path.stem \o <<".", "m", "d">>

\* parser.ParseFile when the read succeeds
ParseFile(m) ==
  LET top == extractTopComment(m.text, DocComment, FALSE)
  IN [Path |-> m.path, ModuleDesc |-> top.desc,
      Elements |-> extractElements(top.rest, DocComment, FALSE)]

\* linkIndex[e.ID] = "<base>#<headerID>"
LocationOf(f, e) == OutBase(f.Path) \o <<"#">> \o ToLower(SpacesToHyphens(e.ID))

\* IndexElements keeping the entry an identifier already has
RECURSIVE IndexElementsKeepsFirst(_, _, _)
IndexElementsKeepsFirst(linkIndex, f, j) ==
  IF j > Len(f.Elements) THEN linkIndex
  ELSE IndexElementsKeepsFirst(
         [id \in DOMAIN linkIndex \cup {f.Elements[j].ID} |->
            IF id \in DOMAIN linkIndex THEN linkIndex[id]
            ELSE LocationOf(f, f.Elements[j])],
         f, j + 1)

\* the inner loop of the index build over the elements of f from position j
RECURSIVE IndexElements(_, _, _)
IndexElements(linkIndex, f, j) ==
  IF j > Len(f.Elements) THEN linkIndex
  ELSE IndexElements(
         [id \in DOMAIN linkIndex \cup {f.Elements[j].ID} |->
            IF id = f.Elements[j].ID THEN LocationOf(f, f.Elements[j]) ELSE linkIndex[id]],
         f, j + 1)

\* the body of the resolution loop for one file
ResolveFile(f, linkIndex) ==
  [f EXCEPT !.ModuleDesc = ProcessBacklinks(f.ModuleDesc, linkIndex),
            !.Elements = [j \in 1..Len(f.Elements) |->
               [f.Elements[j] EXCEPT
                  !.Description = ProcessBacklinks(f.Elements[j].Description, linkIndex)]]]

GInit ==
  /\ \E n \in 0..MaxFiles : \E kinds \in [1..n -> FileKinds] :
       gMatched = [k \in 1..n |->
                     [path |-> PathOf(k), text |-> kinds[k].text,
                      readable |-> kinds[k].readable, writable |-> kinds[k].writable]]
  /\ gPc = "check" /\ gK = 1 /\ gFiles = <<>> /\ gIndex = <<>>
  /\ gWritten = <<>> /\ gResult = "none" /\ gCalls = 0
  /\ exIdle /\ idIdle /\ blIdle

\* if totalFiles == 0 { return fmt.Errorf(...) }
NoFilesMatched ==
  /\ gPc = "check" /\ Len(gMatched) = 0
  /\ gResult' = "error" /\ gPc' = "done"
  /\ UNCHANGED <<gMatched, gK, gFiles, gIndex, gWritten, gCalls, exVars, idVars, blVars>>

StartParse ==
  /\ gPc = "check" /\ Len(gMatched) # 0
  /\ gPc' = "parse" /\ gK' = 1
  /\ UNCHANGED <<gMatched, gFiles, gIndex, gWritten, gResult, gCalls, exVars, idVars, blVars>>

\* the parse loop without the `continue`: the File of a failed read is appended
ParseNextKeepsFailed ==
  /\ gPc = "parse" /\ gK <= Len(gMatched)
  /\ gFiles' = IF gMatched[gK].readable
               THEN Append(gFiles, ParseFile(gMatched[gK]))
               ELSE Append(gFiles, [Path |-> gMatched[gK].path, ModuleDesc |-> <<>>,
                                    Elements |-> <<>>])
  /\ gK' = gK + 1
  /\ UNCHANGED <<gMatched, gPc, gIndex, gWritten, gResult, gCalls, exVars, idVars, blVars>>

\* one iteration of the parse loop: a failed read is logged and skipped
ParseNext ==
  /\ gPc = "parse" /\ gK <= Len(gMatched)
  /\ gFiles' = IF gMatched[gK].readable
               THEN Append(gFiles, ParseFile(gMatched[gK])) ELSE gFiles
  /\ gK' = gK + 1
  /\ UNCHANGED <<gMatched, gPc, gIndex, gWritten, gResult, gCalls, exVars, idVars, blVars>>

\* linkIndex := make(map[string]string)
StartIndex ==
  /\ gPc = "parse" /\ gK > Len(gMatched)
  /\ gPc' = "index" /\ gK' = 1 /\ gIndex' = <<>>
  /\ UNCHANGED <<gMatched, gFiles, gWritten, gResult, gCalls, exVars, idVars, blVars>>

\* index build and resolution in one loop: a file is resolved as soon as it is
\* indexed
IndexNextResolves ==
  /\ gPc = "index" /\ gK <= Len(gFiles)
  /\ gIndex' = IndexElements(gIndex, gFiles[gK], 1)
  /\ gFiles' = [gFiles EXCEPT ![gK] = ResolveFile(gFiles[gK], gIndex')]
  /\ gCalls' = gCalls + 1 + Len(gFiles[gK].Elements)
  /\ gK' = gK + 1
  /\ UNCHANGED <<gMatched, gPc, gWritten, gResult, exVars, idVars, blVars>>

\* one iteration of the index build: every element of p.Files[gK]
IndexNext ==
  /\ gPc = "index" /\ gK <= Len(gFiles)
  /\ gIndex' = IndexElements(gIndex, gFiles[gK], 1)
  /\ gK' = gK + 1
  /\ UNCHANGED <<gMatched, gPc, gFiles, gWritten, gResult, gCalls, exVars, idVars, blVars>>

StartResolve ==
  /\ gPc = "index" /\ gK > Len(gFiles)
  /\ gPc' = "resolve" /\ gK' = 1
  /\ UNCHANGED <<gMatched, gFiles, gIndex, gWritten, gResult, gCalls, exVars, idVars, blVars>>

\* one iteration of the resolution loop: the module description and every
\* element description of p.Files[gK]
ResolveNext ==
  /\ gPc = "resolve" /\ gK <= Len(gFiles)
  /\ gFiles' = [gFiles EXCEPT ![gK] = ResolveFile(gFiles[gK], gIndex)]
  /\ gCalls' = gCalls + 1 + Len(gFiles[gK].Elements)
  /\ gK' = gK + 1
  /\ UNCHANGED <<gMatched, gPc, gIndex, gWritten, gResult, exVars, idVars, blVars>>

StartWrite ==
  /\ gPc = "resolve" /\ gK > Len(gFiles)
  /\ gPc' = "write" /\ gK' = 1
  /\ UNCHANGED <<gMatched, gFiles, gIndex, gWritten, gResult, gCalls, exVars, idVars, blVars>>

\* whether the output of the file at path can be created and written
Writable(path) == \E k \in 1..Len(gMatched) :
  gMatched[k].path = path /\ gMatched[k].writable

\* one iteration of the write loop: a failed MkdirAll or WriteFile is logged
WriteNext ==
  /\ gPc = "write" /\ gK <= Len(gFiles)
  /\ gWritten' = IF Writable(gFiles[gK].Path)
                 THEN Append(gWritten, [outFile |-> OutBase(gFiles[gK].Path),
                                        file |-> gFiles[gK]])
                 ELSE gWritten
  /\ gK' = gK + 1
  /\ UNCHANGED <<gMatched, gPc, gFiles, gIndex, gResult, gCalls, exVars, idVars, blVars>>

\* return nil
ReturnNil ==
  /\ gPc = "write" /\ gK > Len(gFiles)
  /\ gResult' = "nil" /\ gPc' = "done"
  /\ UNCHANGED <<gMatched, gK, gFiles, gIndex, gWritten, gCalls, exVars, idVars, blVars>>

Init == GInit

Next ==
  \/ NoFilesMatched \/ StartParse \/ ParseNext \/ StartIndex \/ IndexNext
  \/ StartResolve \/ ResolveNext \/ StartWrite \/ WriteNext \/ ReturnNil

Spec == Init /\ [][Next]_vars

(***************************************************************************)
(* Properties of the extraction of one file (SpecExtract).                 *)
(***************************************************************************)
\* a line whose first characters are the prefix
AtColumn0(line) == HasPrefix(line, DocComment)

IsBlank(line) == TrimSpace(line) = <<>>

\* the last line of the stretch of column-0 comment lines that holds position s
RECURSIVE BlockEnd(_, _)
BlockEnd(ls, s) ==
  IF s < Len(ls) /\ AtColumn0(ls[s + 1]) THEN BlockEnd(ls, s + 1) ELSE s

\* the first lines of the maximal stretches of column-0 comment lines
BlockStarts(ls) ==
  {s \in 1..Len(ls) : AtColumn0(ls[s]) /\ (s = 1 \/ ~AtColumn0(ls[s - 1]))}

\* ls consists of blocks: every comment-prefixed line is at column 0, and every
\* stretch of them is directly followed by a non-blank line that is no comment
BlockStructured(ls) ==
  /\ \A k \in 1..Len(ls) : IsRunLine(ls[k], DocComment) => AtColumn0(ls[k])
  /\ \A s \in BlockStarts(ls) :
       BlockEnd(ls, s) < Len(ls) /\ ~IsBlank(ls[BlockEnd(ls, s) + 1])

\* the text of a comment line after the prefix and at most one space, the
\* line taken without the whitespace around it
TextAfterPrefix(line) ==
  IF HasPrefix(TrimSpace(line), DocComment \o <<" ">>)
  THEN Drop(TrimSpace(line), Len(DocComment) + 1)
  ELSE Drop(TrimSpace(line), Len(DocComment))

\* a signature line trimmed, without a final brace and the whitespace before it
TrimmedWithoutBrace(line) ==
  LET t == TrimSpace(line)
  IN IF t # <<>> /\ t[Len(t)] = "{" THEN TrimRight(Take(t, Len(t) - 1)) ELSE t

\* where line j of a joined text starts, given the lines
RECURSIVE JoinOffset(_, _)
JoinOffset(ds, j) == IF j = 1 THEN 0 ELSE JoinOffset(ds, j - 1) + Len(ds[j - 1]) + 1

\* text is the lines ds joined with line breaks
IsJoinOf(text, ds) ==
  /\ Len(text) = IF ds = <<>> THEN 0 ELSE JoinOffset(ds, Len(ds)) + Len(ds[Len(ds)])
  /\ \A j \in 1..Len(ds) :
       /\ SubSeq(text, JoinOffset(ds, j) + 1, JoinOffset(ds, j) + Len(ds[j])) = ds[j]
       /\ j < Len(ds) => text[JoinOffset(ds, j) + Len(ds[j]) + 1] = NL

\* the number of the block that starts at s, in source order
BlockNumber(ls, s) == Cardinality({r \in BlockStarts(ls) : r <= s})

\* C1: for a line sequence made of N blocks (a non-empty run of column-0
\* comment lines directly followed by a non-blank, non-comment signature line),
\* with non-comment lines in between, extractElements returns exactly N
\* Elements in source order, Element i carrying block i's description (the
\* run's lines stripped and joined with line breaks) and block i's signature
\* (trimmed, trailing brace removed).
C1_BlocksGiveElements ==
  (exPhase = "done" /\ BlockStructured(exScan)) =>
    /\ Len(exElements) = Cardinality(BlockStarts(exScan))
    /\ \A s \in BlockStarts(exScan) :
         LET e == exElements[BlockNumber(exScan, s)]
             last == BlockEnd(exScan, s)
         IN /\ IsJoinOf(e.Description,
                     [k \in 1..(last - s + 1) |-> TextAfterPrefix(exScan[s + k - 1])])
            /\ e.Signature = TrimmedWithoutBrace(exScan[last + 1])

\* two blocks, each with its own description and signature
C1_Witness ==
  /\ exPhase = "done" /\ BlockStructured(exScan)
  /\ Cardinality(BlockStarts(exScan)) = 2
  /\ Len(exElements) = 2
  /\ exElements[1].Signature # exElements[2].Signature
  /\ exElements[1].Description # exElements[2].Description

\* the length of the maximal leading stretch of run lines
LeadingRun(ls) ==
  CHOOSE k \in 0..Len(ls) :
    /\ \A j \in 1..k : IsRunLine(ls[j], DocComment)
    /\ k = Len(ls) \/ ~IsRunLine(ls[k + 1], DocComment)

\* d is the trimmed line without the prefix and without at most one space after it
PrefixAndSpaceRemoved(d, line) ==
  LET t == TrimSpace(line)
  IN IF HasPrefix(t, DocComment \o <<" ">>)
     THEN t = DocComment \o <<" ">> \o d
     ELSE t = DocComment \o d

\* C2: with ignoreIndented off, extractTopComment returns as description the
\* lines of the maximal leading run of comment-prefixed lines, each without the
\* prefix and at most one following space, joined with line breaks (empty when
\* the first line does not qualify), and as remainder the suffix of the input
\* from the first line that does not qualify; description lines and remainder
\* account for every input line exactly once.
C2_TopCommentSplitsInput ==
  (exTop # <<>> /\ ~exIgn) =>
    LET k == LeadingRun(exLines)
    IN /\ Len(exTop[1].descLines) = k
       /\ \A j \in 1..k : PrefixAndSpaceRemoved(exTop[1].descLines[j], exLines[j])
       /\ IsJoinOf(exTop[1].desc, exTop[1].descLines)
       /\ k = 0 => exTop[1].desc = <<>>
       /\ exTop[1].rest = SubSeq(exLines, k + 1, Len(exLines))
       /\ Len(exTop[1].descLines) + Len(exTop[1].rest) = Len(exLines)

\* a leading run of two lines, one of them indented, and a remainder
C2_Witness ==
  /\ exTop # <<>> /\ ~exIgn
  /\ Len(exTop[1].descLines) = 2 /\ Len(exTop[1].rest) = 2
  /\ \E j \in 1..2 : exLines[j] = LnInd
  /\ exTop[1].rest[1] = LnCode

\* a line that is blank or comment-prefixed: no signature line
NoContent(line) == IsBlank(line) \/ IsRunLine(line, DocComment)

\* where the final stretch of lines without content starts (Len + 1: nowhere)
TailStart(ls) ==
  CHOOSE m \in 1..(Len(ls) + 1) :
    /\ \A j \in m..Len(ls) : NoContent(ls[j])
    /\ m = 1 \/ ~NoContent(ls[m - 1])

\* the runs the scan starts in the final stretch: the first line there that
\* starts a run, if any
TailRuns(ls, ignoreIndented) ==
  {s \in TailStart(ls)..Len(ls) :
     /\ StartsRun(ls[s], DocComment, ignoreIndented)
     /\ \A j \in TailStart(ls)..(s - 1) : ~StartsRun(ls[j], DocComment, ignoreIndented)}

\* C9 as stated: a comment run followed by no content (the input ends after
\* the run, or after the run and only blank or comment-prefixed lines) produces
\* no Element: the result is that of the lines before the final stretch.
C9_RunWithoutSignatureGivesNoElement ==
  (exPhase = "done" /\ TailRuns(exScan, exIgn) # {}) =>
    exElements = extractElements(Take(exScan, TailStart(exScan) - 1), DocComment, exIgn)

\* C9 amended: a comment run followed by no signature line produces one
\* Element: its description is the run's, its signature is empty and its
\* identifier is unnamed_k, k the number of Elements emitted before it.
C9_RunWithoutSignatureGivesUnnamedElement ==
  (exPhase = "done" /\ TailRuns(exScan, exIgn) # {}) =>
    \A s \in TailRuns(exScan, exIgn) :
      LET n == Len(exElements)
          stop == CHOOSE e \in s..Len(exScan) :
                    /\ \A j \in s..e : IsRunLine(exScan[j], DocComment)
                    /\ e = Len(exScan) \/ ~IsRunLine(exScan[e + 1], DocComment)
      IN /\ n >= 1
         /\ exElements[n].Signature = <<>>
         /\ exElements[n].ID = <<"u", "n", "n", "a", "m", "e", "d", "_">> \o Decimal(n - 1)
         /\ IsJoinOf(exElements[n].Description,
                     [k \in 1..(stop - s + 1) |-> TextAfterPrefix(exScan[s + k - 1])])
         /\ SubSeq(exElements, 1, n - 1) =
              extractElements(Take(exScan, TailStart(exScan) - 1), DocComment, exIgn)

\* an element with a signature, then a run, a blank line and the end of input
C9_Witness ==
  /\ exPhase = "done" /\ TailRuns(exScan, exIgn) # {}
  /\ TailStart(exScan) = 3 /\ Len(exScan) = 4 /\ exScan[4] = LnEmpty
  /\ Len(exElements) = 2
  /\ exElements[2].Signature = <<>>

\* the source line's text after the prefix, one leading space removed if present
RawAfterPrefix(line) ==
  LET body == Drop(line, Index(line, DocComment) + Len(DocComment))
  IN IF body # <<>> /\ body[1] = " " THEN Tail(body) ELSE body

\* d is r without the whitespace at its end
WithoutTrailingSpace(d, r) ==
  /\ Len(d) <= Len(r) /\ Take(r, Len(d)) = d
  /\ \A j \in (Len(d) + 1)..Len(r) : IsSpace(r[j])
  /\ d = <<>> \/ ~IsSpace(d[Len(d)])

\* the run lines that make the module description, in source order
TopRunLines(ls, ignoreIndented) ==
  SelectSeq(Take(ls, LeadingRun(ls)),
            LAMBDA l : ~(ignoreIndented /\ IsIndentedComment(l, DocComment)))

\* the first line at which the scan starts a run (0: none)
FirstRun(ls, ignoreIndented) ==
  LET starts == {s \in 1..Len(ls) : StartsRun(ls[s], DocComment, ignoreIndented)}
  IN IF starts = {} THEN 0 ELSE CHOOSE s \in starts : \A r \in starts : s <= r

\* the lines of the run that starts at s
RunLines(ls, s) ==
  LET stop == CHOOSE e \in s..Len(ls) :
                /\ \A j \in s..e : IsRunLine(ls[j], DocComment)
                /\ e = Len(ls) \/ ~IsRunLine(ls[e + 1], DocComment)
  IN SubSeq(ls, s, stop)

\* C10 as stated: each line of a module or Element description is the source
\* comment line's text after the prefix with only a single leading space
\* removed; all other whitespace, trailing spaces and tabs included, is kept,
\* and the lines keep their source order.
C10_DescriptionKeepsAllWhitespace ==
  /\ exTop # <<>> =>
       IsJoinOf(exTop[1].desc,
                [k \in 1..Len(TopRunLines(exLines, exIgn)) |->
                   RawAfterPrefix(TopRunLines(exLines, exIgn)[k])])
  /\ (exPhase = "done" /\ FirstRun(exScan, exIgn) # 0) =>
       IsJoinOf(exElements[1].Description,
                [k \in 1..Len(RunLines(exScan, FirstRun(exScan, exIgn))) |->
                   RawAfterPrefix(RunLines(exScan, FirstRun(exScan, exIgn))[k])])

\* the part of r before the whitespace at its end
BeforeTrailingSpace(r) ==
  CHOOSE d \in {Take(r, n) : n \in 0..Len(r)} : WithoutTrailingSpace(d, r)

\* text is the lines ls joined, each without its trailing whitespace, its
\* prefix and one leading space
IsTrimmedJoinOf(text, ls) ==
  IsJoinOf(text, [k \in 1..Len(ls) |-> BeforeTrailingSpace(RawAfterPrefix(ls[k]))])

\* C10 amended: each line of a module or Element description is the source
\* comment line's text after the prefix with a single leading space removed
\* when present and without the whitespace at the end of the line; whitespace
\* inside the text is kept, and the lines keep their source order.
C10_DescriptionKeepsInnerWhitespace ==
  /\ exTop # <<>> =>
       IsTrimmedJoinOf(exTop[1].desc, TopRunLines(exLines, exIgn))
  /\ (exPhase = "done" /\ FirstRun(exScan, exIgn) # 0) =>
       IsTrimmedJoinOf(exElements[1].Description,
                       RunLines(exScan, FirstRun(exScan, exIgn)))

\* a module description and an Element description, each of two lines, one
\* with two spaces after the prefix and whitespace at its end
C10_Witness ==
  /\ exTop # <<>> /\ exPhase = "done"
  /\ exLines = <<LnDoc, LnInd, LnCode, LnDoc>>
  /\ Len(exTop[1].descLines) = 2
  /\ Len(exElements) = 1

\* a comment-prefixed line preceded only by whitespace
IndentedCommentLine(line) == IsRunLine(line, DocComment) /\ ~AtColumn0(line)

\* C11: with ignoreIndented on, in extractElements a comment-prefixed line
\* preceded only by whitespace never starts a comment run: the scan passes it
\* by one line and emits nothing; but a run that starts at a column-0 comment
\* line collects every comment-prefixed line that directly follows, indented
\* ones included, into its description.
C11_IndentedLineSkippedOrCollected ==
  [][(exPhase = "scan" /\ exIgn /\ exI <= Len(exScan) /\ exI' # exI) =>
       /\ IndentedCommentLine(exScan[exI]) =>
            exI' = exI + 1 /\ exElements' = exElements
       /\ AtColumn0(exScan[exI]) =>
            /\ Len(exElements') = Len(exElements) + 1
            /\ IsJoinOf(exElements'[Len(exElements')].Description,
                        [k \in 1..Len(RunLines(exScan, exI)) |->
                           TextAfterPrefix(RunLines(exScan, exI)[k])])]_vars

\* an indented comment line is passed, then a run collects the indented
\* comment line that follows its first line
C11_Witness ==
  /\ exIgn /\ exPhase = "done"
  /\ exScan = <<LnInd, LnDoc, LnInd, LnSig>>
  /\ Len(exElements) = 1
  /\ exElements[1].Description = <<" ", "a", NL, "b">>

\* the first lines of the maximal stretches of comment-prefixed lines
RunStarts(ls) ==
  {s \in 1..Len(ls) :
     IsRunLine(ls[s], DocComment) /\ (s = 1 \/ ~IsRunLine(ls[s - 1], DocComment))}

\* the number of lines of a description
DescLineCount(text) == 1 + Cardinality({k \in 1..Len(text) : text[k] = NL})

\* the number of description lines of all the elements es
RECURSIVE TotalDescLines(_)
TotalDescLines(es) ==
  IF es = <<>> THEN 0 ELSE DescLineCount(Head(es).Description) + TotalDescLines(Tail(es))

\* C12 as stated: every comment run of the remainder (the lines after the
\* module description) becomes the description of some emitted Element; with
\* ignoreIndented off no comment-prefixed line of the remainder is dropped: the
\* descriptions hold as many lines as the remainder has comment-prefixed lines.
C12_EveryRunBecomesDescription ==
  (exPhase = "done" /\ exTop # <<>> /\ ~exIgn) =>
    /\ \A s \in RunStarts(exScan) : \E n \in 1..Len(exElements) :
         IsJoinOf(exElements[n].Description,
                  [k \in 1..Len(RunLines(exScan, s)) |->
                     TextAfterPrefix(RunLines(exScan, s)[k])])
    /\ TotalDescLines(exElements) =
         Cardinality({j \in 1..Len(exScan) : IsRunLine(exScan[j], DocComment)})

\* the first lines of the maximal stretches of lines without content
StretchStarts(ls) ==
  {m \in 1..Len(ls) : NoContent(ls[m]) /\ (m = 1 \/ ~NoContent(ls[m - 1]))}

\* the last line of the stretch that starts at m
StretchEnd(ls, m) ==
  CHOOSE e \in m..Len(ls) :
    /\ \A j \in m..e : NoContent(ls[j])
    /\ e = Len(ls) \/ ~NoContent(ls[e + 1])

\* a line at which a run may start: comment-prefixed and, with ignoreIndented
\* on, at column 0
Qualifies(line, ignoreIndented) ==
  IsRunLine(line, DocComment) /\ (ignoreIndented => AtColumn0(line))

\* the first line of the stretch at m at which a run may start (0: none)
FirstQualifying(ls, m, ignoreIndented) ==
  LET q == {j \in m..StretchEnd(ls, m) : Qualifies(ls[j], ignoreIndented)}
  IN IF q = {} THEN 0 ELSE CHOOSE j \in q : \A h \in q : j <= h

\* the stretches that hold a run start
Documented(ls, ignoreIndented) ==
  {m \in StretchStarts(ls) : FirstQualifying(ls, m, ignoreIndented) # 0}

\* C12 amended: in each maximal stretch of blank or comment-prefixed lines
\* only the first comment run (from the first line at which a run may start)
\* becomes an Element's description; comment-prefixed lines that follow that
\* run inside the stretch, separated from it by blank lines, are dropped.
\* The Elements are, in source order, one for each stretch that holds a run start.
C12_FirstRunOfStretchBecomesDescription ==
  exPhase = "done" =>
    LET docs == Documented(exScan, exIgn)
    IN /\ Len(exElements) = Cardinality(docs)
       /\ \A m \in docs :
            LET n == Cardinality({r \in docs : r <= m})
                run == RunLines(exScan, FirstQualifying(exScan, m, exIgn))
            IN IsJoinOf(exElements[n].Description,
                        [k \in 1..Len(run) |-> TextAfterPrefix(run[k])])

\* after the module description: a run, a blank line and a second run, which
\* is dropped
C12_Witness ==
  /\ exPhase = "done" /\ exTop # <<>> /\ ~exIgn
  /\ exScan = <<LnCode, LnDoc, LnEmpty, LnInd>>
  /\ Len(exElements) = 1
  /\ exElements[1].Description = <<" ", "a">>

\* the first line that may not start a run with ignoreIndented on (Len + 1: none)
FirstNotQualifying(ls) ==
  LET stops == {k \in 1..Len(ls) : ~Qualifies(ls[k], TRUE)}
  IN IF stops = {} THEN Len(ls) + 1 ELSE CHOOSE k \in stops : \A h \in stops : k <= h

\* C14 as stated: with ignoreIndented on, extractTopComment stops at the first
\* line that does not qualify, a comment-prefixed line preceded only by
\* whitespace not qualifying: that line ends the module description and is the
\* first line of the remainder; no comment line after it is in the description.
C14_IndentedLineEndsModuleDescription ==
  (exTop # <<>> /\ exIgn) =>
    LET k == FirstNotQualifying(exLines)
    IN /\ exTop[1].rest = SubSeq(exLines, k, Len(exLines))
       /\ Len(exTop[1].descLines) = k - 1
       /\ IsJoinOf(exTop[1].desc, [j \in 1..(k - 1) |-> TextAfterPrefix(exLines[j])])

\* C14 amended: with ignoreIndented on, extractTopComment stops at the first
\* line that is not comment-prefixed; a comment-prefixed line preceded only by
\* whitespace is passed over: it is in neither the description nor the
\* remainder, and the column-0 comment lines after it are still added to the
\* module description.
C14_IndentedLineSkippedInModuleDescription ==
  (exTop # <<>> /\ exIgn) =>
    LET k == LeadingRun(exLines)
        kept == SelectSeq(Take(exLines, k), LAMBDA l : AtColumn0(l))
    IN /\ exTop[1].rest = SubSeq(exLines, k + 1, Len(exLines))
       /\ Len(exTop[1].descLines) = Len(kept)
       /\ IsJoinOf(exTop[1].desc, [j \in 1..Len(kept) |-> TextAfterPrefix(kept[j])])

\* an indented comment line between two column-0 comment lines: both are in
\* the module description, the remainder starts at the code line
C14_Witness ==
  /\ exTop # <<>> /\ exIgn
  /\ exLines = <<LnDoc, LnInd, LnDoc, LnCode>>
  /\ exTop[1].desc = <<" ", "a", NL, " ", "a">>
  /\ exTop[1].rest = <<LnCode>>

\* the lines after position stop that are neither blank nor comment-prefixed
ContentAfter(ls, stop) == {j \in (stop + 1)..Len(ls) : ~NoContent(ls[j])}

\* C15: after a description is collected, extractElements takes as signature
\* the first following line that is neither blank nor comment-prefixed; the
\* blank and comment-prefixed lines in between are passed without being added
\* to the description; the signature is that line trimmed, without one final
\* brace and the whitespace before it, and the scan goes on at the line after
\* it; when no such line follows, the signature is empty and the scan is at
\* the end of the input.
C15_SignatureIsNextContentLine ==
  [][(exPhase = "scan" /\ exI <= Len(exScan) /\ Qualifies(exScan[exI], exIgn)
        /\ exI' # exI) =>
       LET run == RunLines(exScan, exI)
           after == ContentAfter(exScan, exI + Len(run) - 1)
           e == exElements'[Len(exElements')]
       IN /\ Len(exElements') = Len(exElements) + 1
          /\ IsJoinOf(e.Description, [k \in 1..Len(run) |-> TextAfterPrefix(run[k])])
          /\ after # {} =>
               LET p == CHOOSE j \in after : \A h \in after : j <= h
               IN e.Signature = TrimmedWithoutBrace(exScan[p]) /\ exI' = p + 1
          /\ after = {} => e.Signature = <<>> /\ exI' = Len(exScan) + 1]_vars

\* a run, then a blank line and a further comment line, then the signature
C15_Witness ==
  /\ exPhase = "done" /\ ~exIgn
  /\ exScan = <<LnDoc, LnEmpty, LnInd, LnSig>>
  /\ Len(exElements) = 1
  /\ exElements[1].Description = <<" ", "a">>
  /\ exElements[1].Signature = <<"f", "(">>

\* prefixes other than the configured one: empty, shorter, longer, a brace
ScanPrefixes ==
  {<<>>, <<"/">>, DocComment, <<"/", "/", "/", " ">>, <<"{">>}

\* C16: extractElements and extractTopComment terminate on every finite line
\* sequence, for every prefix and both values of ignoreIndented: every
\* iteration of the outer scan loop advances the line position by at least one
\* (also when an indented comment line is skipped) and never beyond the
\* position after the last line, so a scan of n lines makes at most n
\* iterations; the returned remainder is a suffix of the input; a sequence
\* with no line at which a run may start yields zero Elements.
C16_ScanTerminates ==
  /\ [][(exPhase = "scan" /\ exPhase' = "scan") =>
          (exI' > exI /\ exI' <= Len(exScan) + 1)]_vars
  /\ [](exI <= Len(exScan) + 1)
  /\ []((exPhase = "scan" /\ exI <= Len(exScan)) =>
          ElemIter(exScan, exI, exElements, DocComment, exIgn).i > exI)
  /\ [](exTop # <<>> =>
          /\ Len(exTop[1].rest) <= Len(exLines)
          /\ exTop[1].rest = Drop(exLines, Len(exLines) - Len(exTop[1].rest)))
  /\ []((exPhase = "done" /\ \A j \in 1..Len(exScan) : ~Qualifies(exScan[j], exIgn))
          => exElements = <<>>)
  /\ [](exPhase = "start" =>
          \A p \in ScanPrefixes :
            /\ TopLoop(exLines, 1, <<>>, p, exIgn).i \in 1..(Len(exLines) + 1)
            /\ \A i \in 1..Len(exLines) :
                 LET r == ElemIter(exLines, i, <<>>, p, exIgn)
                 IN r.i > i /\ r.i <= Len(exLines) + 1)

\* a scan over indented comment lines and code only, ignoreIndented on: it
\* has returned, at the end of the lines, with no Element
C16_Witness ==
  /\ exPhase = "done" /\ exIgn
  /\ exScan = <<LnInd, LnCode, LnInd, LnInd>>
  /\ exI = Len(exScan) + 1
  /\ exElements = <<>>

\* C17 as stated: extractElements never emits an Element whose description is
\* empty: a run whose collected description is empty (a run of one bare-prefix
\* line, with no text after the prefix) is abandoned and no Element is emitted
\* for it.
C17_NoEmptyDescription ==
  \A n \in 1..Len(exElements) : exElements[n].Description # <<>>

(***************************************************************************)
(* Properties of the backlink resolution (SpecLinks).                      *)
(***************************************************************************)
\* the positions at which pat occurs in str
Occurrences(str, pat) ==
  {k \in 1..(Len(str) - Len(pat) + 1) : SubSeq(str, k, k + Len(pat) - 1) = pat}

\* [id]
Bracketed(id) == <<"[">> \o id \o <<"]">>

\* (location)
Parenthesized(loc) == <<"(">> \o loc \o <<")">>

\* C3 as stated: ProcessBacklinks rewrites every occurrence of a bracketed
\* token [text] whose text is a key of the index into [text](location), also
\* where the token is directly preceded by another "[" or stands next to other
\* brackets: the output holds as many [text](location) as the input holds [text].
C3_EveryKeyTokenRewritten ==
  blPasses = 1 =>
    \A id \in DOMAIN blIndex :
      Cardinality(Occurrences(blDesc, Bracketed(id) \o Parenthesized(blIndex[id])))
        = Cardinality(Occurrences(blIn, Bracketed(id)))

\* str with every (location) that directly follows its [key] taken out
RECURSIVE WithoutLinks(_, _)
WithoutLinks(str, linkIndex) ==
  LET hits == {h \in (1..Len(str)) \X DOMAIN linkIndex :
                 h[1] \in Occurrences(str, Bracketed(h[2]) \o Parenthesized(linkIndex[h[2]]))}
      h0 == CHOOSE h \in hits : \A g \in hits : h[1] <= g[1]
      cut == h0[1] + Len(Bracketed(h0[2]))
  IN IF hits = {} THEN str
     ELSE WithoutLinks(Take(str, cut - 1)
                         \o Drop(str, cut - 1 + Len(Parenthesized(linkIndex[h0[2]]))),
                       linkIndex)

\* C4: ProcessBacklinks changes nothing except by inserting "(location)"
\* directly after a bracketed token whose text is an index key: the output
\* without those insertions is the input, so every other token and every
\* other character is unchanged and in place; with an empty index the output
\* equals the input.
C4_OnlyLocationsInserted ==
  blPasses = 1 =>
    /\ WithoutLinks(blDesc, blIndex) = blIn
    /\ DOMAIN blIndex = {} => blDesc = blIn
    /\ (\A id \in DOMAIN blIndex : Occurrences(blIn, Bracketed(id)) = {}) => blDesc = blIn

\* a key token rewritten next to a token that is no key, which stays
C4_Witness ==
  /\ blPasses = 1
  /\ blIn = <<"[", "a", "]", "[", "b", "]">>
  /\ DOMAIN blIndex = {KeyA}
  /\ blDesc = <<"[", "a", "]", "(", "m", "#", "a", ")", "[", "b", "]">>

\* [id](location)
Linked(id, linkIndex) == Bracketed(id) \o Parenthesized(linkIndex[id])

\* the keys whose token a description holds rewritten
Rewritten(desc, linkIndex) ==
  {id \in DOMAIN linkIndex : Occurrences(desc, Linked(id, linkIndex)) # {}}

\* an identifier without a bracket
NoBracket(id) == \A k \in 1..Len(id) : id[k] \notin {"[", "]"}

\* C13: ProcessBacklinks is not idempotent.  When an application has rewritten
\* a token [text] into [text](location), applying it again to that output with
\* the same index matches the [text] part again and appends a second
\* "(location)": the output of two applications differs from that of one and
\* holds [text](location)(location) where one application left
\* [text](location); when no key holds a bracket this happens to every
\* rewritten token.
C13_SecondPassAppendsAgain ==
  [][(blPasses = 1 /\ blPasses' = 2) =>
       /\ blDesc # blIn => blDesc' # blDesc
       /\ Rewritten(blDesc, blIndex) # {} =>
            /\ blDesc' # blDesc
            /\ \E id \in Rewritten(blDesc, blIndex) :
                 \E p \in Occurrences(blDesc, Linked(id, blIndex)) :
                   p \in Occurrences(blDesc',
                                     Linked(id, blIndex) \o Parenthesized(blIndex[id]))
       /\ (\A id \in DOMAIN blIndex : NoBracket(id)) =>
            \A id \in DOMAIN blIndex :
              Cardinality(Occurrences(blDesc',
                            Linked(id, blIndex) \o Parenthesized(blIndex[id])))
                = Cardinality(Occurrences(blDesc, Linked(id, blIndex)))]_vars

\* [a] resolved twice
C13_Witness ==
  /\ blPasses = 2
  /\ blIn = <<"[", "a", "]">>
  /\ blDesc = <<"[", "a", "]", "(", "m", "#", "a", ")", "(", "m", "#", "a", ")">>

(***************************************************************************)
(* Properties of the identifier derivation (SpecID).                       *)
(***************************************************************************)
\* sig[a..b] is a whole word: a maximal stretch of word characters
WholeWord(sig, a, b) ==
  /\ 1 <= a /\ a <= b /\ b <= Len(sig)
  /\ \A j \in a..b : IsWord(sig[j])
  /\ a = 1 \/ ~IsWord(sig[a - 1])
  /\ b = Len(sig) \/ ~IsWord(sig[b + 1])

Positions(sig) == (1..Len(sig)) \X (1..Len(sig))

\* rule 1: "class" or "struct", whitespace, and the word that follows
Rule1Words(sig) ==
  {w \in Positions(sig) :
     /\ \E kw \in {KwClass, KwStruct} :
          /\ HasPrefix(sig, kw)
          /\ w[1] > Len(kw) + 1
          /\ \A j \in (Len(kw) + 1)..(w[1] - 1) : IsSpace(sig[j])
     /\ 1 <= w[1] /\ w[1] <= w[2]
     /\ \A j \in w[1]..w[2] : IsWord(sig[j])
     /\ w[2] = Len(sig) \/ ~IsWord(sig[w[2] + 1])}

\* rule 2: the whole words followed, after optional whitespace, by "("
Rule2Words(sig) ==
  {w \in Positions(sig) :
     /\ WholeWord(sig, w[1], w[2])
     /\ \E p \in (w[2] + 1)..Len(sig) :
          sig[p] = "(" /\ \A j \in (w[2] + 1)..(p - 1) : IsSpace(sig[j])}

\* rule 3: the whitespace-delimited tokens
Rule3Tokens(sig) ==
  {w \in Positions(sig) :
     /\ w[1] <= w[2]
     /\ \A j \in w[1]..w[2] : ~IsSpace(sig[j])
     /\ w[1] = 1 \/ IsSpace(sig[w[1] - 1])
     /\ w[2] = Len(sig) \/ IsSpace(sig[w[2] + 1])}

Leftmost(ws) == CHOOSE w \in ws : \A v \in ws : w[1] <= v[1]

\* the identifier the chain gives for sig, k Elements emitted before
ChainID(sig, k) ==
  IF Rule1Words(sig) # {}
  THEN SubSeq(sig, Leftmost(Rule1Words(sig))[1], Leftmost(Rule1Words(sig))[2])
  ELSE IF Rule2Words(sig) # {}
  THEN SubSeq(sig, Leftmost(Rule2Words(sig))[1], Leftmost(Rule2Words(sig))[2])
  ELSE IF Rule3Tokens(sig) # {}
  THEN SubSeq(sig, Leftmost(Rule3Tokens(sig))[1], Leftmost(Rule3Tokens(sig))[2])
  ELSE <<"u", "n", "n", "a", "m", "e", "d", "_">> \o Decimal(k)

\* C6: the identifier of every emitted Element is determined from its
\* signature by the ordered chain, first match wins: (1) the word after a
\* leading "class" or "struct" and whitespace; (2) the leftmost whole word
\* followed, after optional whitespace, by "("; (3) the first
\* whitespace-delimited token; (4) when the signature is empty, unnamed_k with
\* k the number of Elements emitted before it.  No Element has an empty
\* identifier.
C6_IdentifierChain ==
  idElements # <<>> =>
    \A n \in 1..Len(idElements[1]) :
      LET e == idElements[1][n]
      IN /\ e.ID = ChainID(e.Signature, n - 1)
         /\ e.ID # <<>>
         /\ (Rule1Words(e.Signature) = {} /\ Rule2Words(e.Signature) = {}
               /\ Rule3Tokens(e.Signature) = {}) <=> e.Signature = <<>>

\* the third Element of a file: rule 2 picks the word before "(", not the
\* first token
C6_Witness ==
  /\ idElements # <<>>
  /\ Len(idElements[1]) = 3
  /\ idElements[1][3].Signature = <<"a", " ", "W", "(">>
  /\ idElements[1][3].ID = <<"W">>

(***************************************************************************)
(* Properties of the generate run (Spec).                                  *)
(***************************************************************************)
\* the matched files whose read succeeds, in order
Readable == SelectSeq(gMatched, LAMBDA m : m.readable)

\* the File records of a run over the matched files ms, as parsed
RECURSIVE RefParsed(_)
RefParsed(ms) ==
  IF ms = <<>> THEN <<>> ELSE <<ParseFile(Head(ms))>> \o RefParsed(Tail(ms))

\* the index of a run over the File records fs, built from position k on
RECURSIVE RefIndex(_, _, _)
RefIndex(fs, k, linkIndex) ==
  IF k > Len(fs) THEN linkIndex
  ELSE RefIndex(fs, k + 1, IndexElements(linkIndex, fs[k], 1))

\* the File records fs after the resolution pass with linkIndex
RECURSIVE RefResolveAll(_, _)
RefResolveAll(fs, linkIndex) ==
  IF fs = <<>> THEN <<>>
  ELSE <<ResolveFile(Head(fs), linkIndex)>> \o RefResolveAll(Tail(fs), linkIndex)

\* the File records of a run over ms after the resolution pass
RefResolved(ms) ==
  LET fs == RefParsed(ms)
  IN RefResolveAll(fs, RefIndex(fs, 1, <<>>))

\* the outputs of a run over ms whose resolved File records are fs
RECURSIVE RefWriteAll(_, _)
RefWriteAll(ms, fs) ==
  IF ms = <<>> THEN <<>>
  ELSE (IF Head(ms).writable
        THEN <<[outFile |-> OutBase(Head(ms).path), file |-> Head(fs)]>> ELSE <<>>)
       \o RefWriteAll(Tail(ms), Tail(fs))

\* the outputs of a run over ms
RefWritten(ms) == RefWriteAll(ms, RefResolved(ms))

\* every Element of every file whose read succeeds has its entry in the index,
\* which holds the location of an Element of that identifier
IndexComplete ==
  LET fs == RefParsed(Readable)
  IN \A k \in 1..Len(fs) : \A n \in 1..Len(fs[k].Elements) :
       /\ fs[k].Elements[n].ID \in DOMAIN gIndex
       /\ \E j \in 1..Len(fs) : \E i \in 1..Len(fs[j].Elements) :
            /\ fs[j].Elements[i].ID = fs[k].Elements[n].ID
            /\ gIndex[fs[k].Elements[n].ID] = LocationOf(fs[j], fs[j].Elements[i])

\* every reference [id] of text before has its location after it in text after
ReferencesResolved(before, after) ==
  \A id \in DOMAIN gIndex :
    Cardinality(Occurrences(after, Bracketed(id) \o Parenthesized(gIndex[id])))
      = Cardinality(Occurrences(before, Bracketed(id)))

\* C5: in the generate run no ProcessBacklinks call happens before the link
\* index contains the Elements of every successfully parsed file; so a
\* reference [id] in an earlier-processed file resolves to the location of an
\* Element of a later-processed file, and the index is not modified once the
\* resolution pass has started.
C5_IndexIsBarrier ==
  /\ [](gCalls > 0 => IndexComplete)
  /\ [][(gCalls > 0 \/ gPc \in {"resolve", "write", "done"}) => gIndex' = gIndex]_vars
  /\ []((gPc = "done" /\ gResult = "nil") =>
          LET fs == RefParsed(Readable)
          IN \A k \in 1..Len(gFiles) :
               /\ ReferencesResolved(fs[k].ModuleDesc, gFiles[k].ModuleDesc)
               /\ \A n \in 1..Len(gFiles[k].Elements) :
                    ReferencesResolved(fs[k].Elements[n].Description,
                                       gFiles[k].Elements[n].Description))

\* the first file refers to G, which the second file defines
C5_Witness ==
  /\ gPc = "done" /\ gResult = "nil"
  /\ Len(gFiles) = 2
  /\ gMatched[1].text = TxtF /\ gMatched[2].text = TxtG
  /\ gFiles[1].Elements[1].Description =
       <<"[", "G", "]", "(", "p", "2", ".", "m", "d", "#", "g", ")">>

\* C7: when reading one matched file fails the run does not abort: that file
\* contributes no File record, no index entry and no output file, and every
\* other matched file is parsed, indexed, resolved and written exactly as in a
\* run in which the failing file had not been matched.
C7_FailedReadIsSkipped ==
  gPc = "done" =>
    /\ Len(gMatched) > 0 => gResult = "nil"
    /\ gResult = "nil" =>
         /\ gFiles = RefResolved(Readable)
         /\ gIndex = RefIndex(RefParsed(Readable), 1, <<>>)
         /\ gWritten = RefWritten(Readable)
         /\ Len(gFiles) = Cardinality({k \in 1..Len(gMatched) : gMatched[k].readable})
         /\ \A k \in 1..Len(gMatched) :
              ~gMatched[k].readable =>
                /\ \A j \in 1..Len(gFiles) : gFiles[j].Path # gMatched[k].path
                /\ \A j \in 1..Len(gWritten) : gWritten[j].outFile # OutBase(gMatched[k].path)
                /\ \A id \in DOMAIN gIndex :
                     ~HasPrefix(gIndex[id], OutBase(gMatched[k].path))

\* the second of three files cannot be read; the other two are written
C7_Witness ==
  /\ gPc = "done" /\ gResult = "nil"
  /\ Len(gMatched) = 3 /\ ~gMatched[2].readable
  /\ Len(gFiles) = 2 /\ Len(gWritten) = 2
  /\ gFiles[1].Elements # <<>> /\ gFiles[2].Elements # <<>>

\* the identifiers of the Elements of the File records fs
IdentifiersOf(fs) ==
  UNION {{fs[k].Elements[n].ID : n \in 1..Len(fs[k].Elements)} : k \in 1..Len(fs)}

\* the last File record of fs that holds an Element with identifier id
LastFileWith(fs, id) ==
  LET ks == {k \in 1..Len(fs) : \E n \in 1..Len(fs[k].Elements) : fs[k].Elements[n].ID = id}
  IN CHOOSE k \in ks : \A h \in ks : k >= h

\* every [id] of text before is [id](location) in text after, and after holds
\* no [id]( that is not followed by that location
ResolvedOnlyTo(before, after, id, location) ==
  /\ Cardinality(Occurrences(after, Bracketed(id) \o Parenthesized(location)))
       = Cardinality(Occurrences(before, Bracketed(id)))
  /\ Occurrences(after, Bracketed(id) \o <<"(">>)
       = Occurrences(after, Bracketed(id) \o Parenthesized(location))

\* C18: when several Elements, in one file or in different files, derive the
\* same identifier, the link index holds exactly one entry for it, pointing to
\* the output file of the last such Element in processing order, with location
\* "<base name of that output file>#<identifier lowercased, spaces replaced by
\* hyphens>"; every [identifier] reference in every file resolves to that one
\* location, and the index has as many entries as there are distinct
\* identifiers.
C18_LastElementWinsIndex ==
  gPc \in {"resolve", "write", "done"} =>
    LET ids == IdentifiersOf(gFiles)
    IN /\ DOMAIN gIndex = ids
       /\ Cardinality(DOMAIN gIndex) = Cardinality(ids)
       /\ \A id \in ids :
            gIndex[id] = OutBase(gFiles[LastFileWith(gFiles, id)].Path)
                           \o <<"#">> \o ToLower(SpacesToHyphens(id))
       /\ gPc = "done" =>
            LET fs == RefParsed(Readable)
            IN \A id \in ids : \A k \in 1..Len(gFiles) :
                 /\ ResolvedOnlyTo(fs[k].ModuleDesc, gFiles[k].ModuleDesc, id, gIndex[id])
                 /\ \A n \in 1..Len(gFiles[k].Elements) :
                      ResolvedOnlyTo(fs[k].Elements[n].Description,
                                     gFiles[k].Elements[n].Description, id, gIndex[id])

\* F is an Element of the first file, twice of the second and once of the
\* third: one entry, for the third file, and the second file's [F] points there
C18_Witness ==
  /\ gPc = "done" /\ gResult = "nil"
  /\ Len(gFiles) = 3
  /\ gMatched[1].text = TxtF /\ gMatched[2].text = TxtDup /\ gMatched[3].text = TxtF
  /\ DOMAIN gIndex = {<<"F">>}
  /\ gIndex[<<"F">>] = <<"p", "3", ".", "m", "d", "#", "f">>
  /\ Len(gFiles[2].Elements) = 2
  /\ gFiles[2].Elements[1].Description =
       <<"[", "F", "]", "(", "p", "3", ".", "m", "d", "#", "f", ")">>

\* C8 as stated: if zero files are successfully processed in a generate run,
\* also when files matched and every one of them failed to read, the run ends
\* with a fatal failure returned to the caller.
C8_ZeroFilesIsFatal ==
  (gPc = "done" /\ Len(gFiles) = 0) => gResult = "error"

====
